---- MODULE Spec2Model ----
(***************************************************************************)
(* The Scrolls of Skelos: a single-user note store (NotesApp) with whole-  *)
(* collection JSON persistence, driven by a line-oriented command loop.    *)
(*                                                                         *)
(* Text is a sequence of one-character strings.  A JSON value is a record  *)
(* [t |-> type, v |-> payload]; an object payload is a function from its   *)
(* keys.  Strings are valid UTF-8 and the collection document carries the  *)
(* NotesDir and ConfigFile the process computes itself.  A moment of time   *)
(* is an integer number of seconds.                                        *)
(***************************************************************************)
EXTENDS Integers, Sequences, FiniteSets, TLC

\* ---------------------------------------------------------------- bounds
MaxID == 1
MaxNotes == 2
MaxTime == 1
MaxWriteFailures == 1

ZeroTime == 0 - 1

\* ---------------------------------------------------------------- strings
Upper == <<"A","B","C","D","E","F","G","H","I","J","K","L","M",
           "N","O","P","Q","R","S","T","U","V","W","X","Y","Z">>
Lower == <<"a","b","c","d","e","f","g","h","i","j","k","l","m",
           "n","o","p","q","r","s","t","u","v","w","x","y","z">>

LowerChar(c) ==
    IF \E i \in 1..Len(Upper) : Upper[i] = c
    THEN Lower[CHOOSE i \in 1..Len(Upper) : Upper[i] = c]
    ELSE c

ToLower(s) == [i \in 1..Len(s) |-> LowerChar(s[i])]

IsSpace(c) == c \in {" ", "\t", "\n", "\r"}

RECURSIVE TrimLeft(_)
TrimLeft(s) ==
    IF s # <<>> /\ IsSpace(Head(s)) THEN TrimLeft(Tail(s)) ELSE s

RECURSIVE TrimRight(_)
TrimRight(s) ==
    IF s # <<>> /\ IsSpace(s[Len(s)])
    THEN TrimRight(SubSeq(s, 1, Len(s) - 1))
    ELSE s

TrimSpace(s) == TrimRight(TrimLeft(s))

\* strings.Split(s, ","): the pieces between the commas, empty ones kept
RECURSIVE SplitFrom(_, _)
SplitFrom(s, cur) ==
    IF s = <<>> THEN <<cur>>
    ELSE IF Head(s) = "," THEN <<cur>> \o SplitFrom(Tail(s), <<>>)
    ELSE SplitFrom(Tail(s), Append(cur, Head(s)))

Split(s) == SplitFrom(s, <<>>)

\* strings.Contains(s, sub)
Contains(s, sub) ==
    \E i \in 0..Len(s) :
        /\ i + Len(sub) <= Len(s)
        /\ SubSeq(s, i + 1, i + Len(sub)) = sub

\* strconv.Atoi: optional sign, then one or more decimal digits
Digits == <<"0","1","2","3","4","5","6","7","8","9">>
IsDigit(c) == \E i \in 1..Len(Digits) : Digits[i] = c
DigitVal(c) == (CHOOSE i \in 1..Len(Digits) : Digits[i] = c) - 1

RECURSIVE DecVal(_, _)
DecVal(s, acc) ==
    IF s = <<>> THEN acc ELSE DecVal(Tail(s), 10 * acc + DigitVal(Head(s)))

\* variant of Atoi: a line that is not a number is read as 1
AtoiLenient(s) ==
    LET ok == s # <<>> /\ \A i \in 1..Len(s) : IsDigit(s[i])
    IN  [err |-> FALSE, val |-> IF ok THEN DecVal(s, 0) ELSE 1]

Atoi(s) ==
    LET signed == s # <<>> /\ Head(s) \in {"+", "-"}
        body   == IF signed THEN Tail(s) ELSE s
        ok     == body # <<>> /\ \A i \in 1..Len(body) : IsDigit(body[i])
    IN  IF ~ok THEN [err |-> TRUE, val |-> 0]
        ELSE [err |-> FALSE,
              val |-> IF signed /\ Head(s) = "-"
                      THEN 0 - DecVal(body, 0) ELSE DecVal(body, 0)]

\* the tag block of Run, EditScroll and RetagScroll: a nil slice for a blank
\* line, otherwise the comma-separated pieces, each trimmed
NilTags == [nil |-> TRUE, elems |-> <<>>]

ParseTags(trimmed) ==
    IF trimmed = <<>> THEN NilTags
    ELSE LET parts == Split(trimmed)
         IN  [nil |-> FALSE,
              elems |-> [j \in 1..Len(parts) |-> TrimSpace(parts[j])]]

\* variant of IsYes: any answer that begins with a y
IsYesPrefix(response) ==
    LET r == TrimSpace(ToLower(response))
    IN  r # <<>> /\ Head(r) = "y"

\* y / yes after TrimSpace(ToLower(response))
IsYes(response) ==
    LET r == TrimSpace(ToLower(response))
    IN  r = <<"y">> \/ r = <<"y","e","s">>

\* ---------------------------------------------------------------- notes
NoPath == <<>>

Note(id, title, content, tags, created, updated, type, path) ==
    [ID |-> id, Title |-> title, Content |-> content, Tags |-> tags,
     CreatedAt |-> created, UpdatedAt |-> updated, Type |-> type,
     FilePath |-> path, Screenshot |-> path]

ZeroNote == Note(0, <<>>, <<>>, NilTags, ZeroTime, ZeroTime, <<>>, NoPath)

TypeText == <<"t","e","x","t">>
TypeShot == <<"s","c","r","e","e","n","s","h","o","t">>

\* time.Now().Format("20060102_150405")
Second(t) == t

\* filepath.Join(NotesDir, "screenshots", "scroll_capture_<stamp>_<id>.png")
CapturePath(t, id) == <<Second(t), id>>

\* ---------------------------------------------------------------- JSON
JNull == [t |-> "null", v |-> 0]
JNum(n) == [t |-> "number", v |-> n]
JStr(s) == [t |-> "string", v |-> s]
JTime(m) == [t |-> "string", v |-> <<"T", m>>]
JArr(a) == [t |-> "array", v |-> a]
JObj(f) == [t |-> "object", v |-> f]

Has(obj, key) == key \in DOMAIN obj.v

MarshalTags(tags) ==
    IF tags.nil THEN JNull
    ELSE JArr([j \in 1..Len(tags.elems) |-> JStr(tags.elems[j])])

\* the Note struct tags: file_path and screenshot are omitempty
NoteKeys(n) ==
    {"id", "title", "content", "tags", "created_at", "updated_at", "type"}
    \cup (IF n.FilePath = NoPath THEN {} ELSE {"file_path"})
    \cup (IF n.Screenshot = NoPath THEN {} ELSE {"screenshot"})

MarshalNote(n) ==
    JObj([k \in NoteKeys(n) |->
            CASE k = "id"         -> JNum(n.ID)
              [] k = "title"      -> JStr(n.Title)
              [] k = "content"    -> JStr(n.Content)
              [] k = "tags"       -> MarshalTags(n.Tags)
              [] k = "created_at" -> JTime(n.CreatedAt)
              [] k = "updated_at" -> JTime(n.UpdatedAt)
              [] k = "type"       -> JStr(n.Type)
              [] k = "file_path"  -> JStr(n.FilePath)
              [] k = "screenshot" -> JStr(n.Screenshot)])

\* variant of Marshal: the document lacks the counter
MarshalWithoutCounter(notes, nextID) ==
    JObj([k \in {"notes"} |->
            JArr([i \in 1..Len(notes) |-> MarshalNote(notes[i])])])

\* json.MarshalIndent(app, "", "  ")
Marshal(notes, nextID) ==
    JObj([k \in {"notes", "next_id"} |->
            IF k = "notes"
            THEN JArr([i \in 1..Len(notes) |-> MarshalNote(notes[i])])
            ELSE JNum(nextID)])

\* decoding one field: a key that is absent or null keeps the old value, a
\* value of the wrong JSON type is skipped and remembered as an error
Field(obj, key, type, old) ==
    IF ~Has(obj, key) \/ obj.v[key].t = "null"
    THEN [val |-> old, err |-> FALSE]
    ELSE IF obj.v[key].t # type THEN [val |-> old, err |-> TRUE]
    ELSE [val |-> obj.v[key].v, err |-> FALSE]

UnmarshalTags(obj) ==
    IF ~Has(obj, "tags") \/ obj.v["tags"].t = "null"
    THEN [val |-> NilTags, err |-> FALSE]
    ELSE IF obj.v["tags"].t # "array" THEN [val |-> NilTags, err |-> TRUE]
    ELSE LET a == obj.v["tags"].v
         IN  [val |-> [nil |-> FALSE,
                       elems |-> [j \in 1..Len(a) |->
                                    IF a[j].t = "string" THEN a[j].v
                                    ELSE <<>>]],
              err |-> \E j \in 1..Len(a) : a[j].t \notin {"string", "null"}]

UnmarshalTime(obj, key) ==
    LET f == Field(obj, key, "string", <<"T", ZeroTime>>)
    IN  [val |-> f.val[2], err |-> f.err]

\* one element of "notes" decoded into a zero Note
UnmarshalNote(j) ==
    IF j.t # "object" THEN [val |-> ZeroNote, err |-> j.t # "null"]
    ELSE LET id  == Field(j, "id", "number", 0)
             ti  == Field(j, "title", "string", <<>>)
             co  == Field(j, "content", "string", <<>>)
             tg  == UnmarshalTags(j)
             cr  == UnmarshalTime(j, "created_at")
             up  == UnmarshalTime(j, "updated_at")
             ty  == Field(j, "type", "string", <<>>)
             fp  == Field(j, "file_path", "string", NoPath)
             sc  == Field(j, "screenshot", "string", NoPath)
         IN  [val |-> [ID |-> id.val, Title |-> ti.val, Content |-> co.val,
                       Tags |-> tg.val, CreatedAt |-> cr.val,
                       UpdatedAt |-> up.val, Type |-> ty.val,
                       FilePath |-> fp.val, Screenshot |-> sc.val],
              err |-> id.err \/ ti.err \/ co.err \/ tg.err \/ cr.err
                      \/ up.err \/ ty.err \/ fp.err \/ sc.err]

\* json.Unmarshal(data, app): the fields the document gives replace those of
\* app, the others keep their value; a type error does not stop the decoding
Unmarshal(doc, notes, nextID) ==
    IF doc.t # "object"
    THEN [Notes |-> notes, NextID |-> nextID, err |-> TRUE]
    ELSE LET ns == IF ~Has(doc, "notes") THEN [val |-> notes, err |-> FALSE]
                   ELSE IF doc.v["notes"].t = "null"
                        THEN [val |-> <<>>, err |-> FALSE]
                   ELSE IF doc.v["notes"].t # "array"
                        THEN [val |-> notes, err |-> TRUE]
                   ELSE LET a == doc.v["notes"].v
                        IN  [val |-> [i \in 1..Len(a) |->
                                        UnmarshalNote(a[i]).val],
                             err |-> \E i \in 1..Len(a) :
                                        UnmarshalNote(a[i]).err]
             nx == Field(doc, "next_id", "number", nextID)
         IN  [Notes |-> ns.val, NextID |-> nx.val, err |-> ns.err \/ nx.err]

\* ---------------------------------------------------------------- files
\* the collection file: absent, present but unreadable, bytes that are not
\* JSON, or a JSON document
NoFile == [kind |-> "missing", doc |-> JNull]
Unreadable == [kind |-> "unreadable", doc |-> JNull]
Garbled == [kind |-> "garbled", doc |-> JNull]
JsonFile(doc) == [kind |-> "json", doc |-> doc]


\* the collection file after ioutil.WriteFile(ConfigFile, data, 0644) with
\* outcome w: written, or failed after the file was truncated
WriteOutcomes == {"ok", "partial"}

WriteFile(old, doc, w) ==
    CASE w = "ok"      -> JsonFile(doc)
      [] w = "partial" -> Garbled

\* ---------------------------------------------------------------- inputs
TitleLines == {<<" ">>, <<"A">>}
ContentLines == {<<"b">>}
TagLines == {<<>>, <<"a",","," ","a">>}
EditTitleLines == {<<>>, <<"A"," ">>}
EditLines ==
    {<<<<>>, <<>>, <<>>>>,
     <<<<"A"," ">>, <<>>, <<>>>>,
     <<<<>>, <<" ","b">>, <<>>>>,
     <<<<>>, <<>>, <<"a",","," ","a">>>>,
     <<<<"A"," ">>, <<" ","b">>, <<"a",","," ","a">>>>}
QueryLines == {<<" ">>, <<"a">>, <<"B">>}
ConfirmLines == {<<>>, <<"y">>, <<"Y","e","s"," ">>, <<"y","e","s","s">>}
IdLines == {<<"x">>, <<"1">>, <<" ","2">>}
OpenLines == {<<"n">>, <<"Y">>}
AnswerLines == {<<"n">>, <<" ","Y","E","S">>}
CommandLines ==
    {<<"1">>, <<"A","d","d">>, <<"2">>, <<" ","c","a","p","t","u","r","e">>,
     <<"3">>, <<"L","I","S","T">>, <<"4">>, <<"v","i","e","w">>,
     <<"5">>, <<"s","e","e","k">>, <<"6">>, <<"e","d","i","t">>,
     <<"7">>, <<"r","e","t","i","t","l","e">>, <<"8">>, <<"r","e","t","a","g">>,
     <<"9">>, <<"r","e","c","a","p","t","u","r","e">>,
     <<"1","0">>, <<"e","r","a","s","e">>, <<"1","1">>, <<"h","e","l","p">>,
     <<"1","2">>, <<"q","u","i","t">>,
     <<>>, <<"1","3">>, <<"a","d","d","s">>}

\* the capture program: it writes the target file and exits, exits without
\* having written it, or fails
CaptureOutcomes == {"ok", "nofile", "err"}
CaptureWrites(c) == c = "ok"
CaptureFails(c) == c = "err"

\* the sample documents a start may find
Sample1 == Note(1, <<"A">>, <<"c">>, NilTags, 0, 0, TypeText, NoPath)
Sample2 == Note(2, <<"A">>, <<>>, [nil |-> FALSE, elems |-> <<<<"a">>>>],
                0, 0, TypeShot, CapturePath(0, 2))
Sample3 == Note(1, <<"A">>, <<>>, NilTags, 0, 0, TypeShot, CapturePath(0, 1))
Sample4 == Note(2, <<"a">>, <<"b">>, NilTags, 1, 1, TypeText, NoPath)

WithKey(obj, key, val) ==
    JObj([k \in DOMAIN obj.v \cup {key} |->
            IF k = key THEN val ELSE obj.v[k]])
WithoutKey(obj, key) ==
    JObj([k \in DOMAIN obj.v \ {key} |-> obj.v[k]])

InitialFiles ==
    {NoFile, Unreadable, Garbled,
     JsonFile(Marshal(<<Sample1>>, 2)),
     JsonFile(Marshal(<<Sample2, Sample1>>, 3)),
     JsonFile(Marshal(<<Sample1, Sample4>>, 3)),
     JsonFile(Marshal(<<Sample1>>, 1)),
     JsonFile(WithoutKey(Marshal(<<Sample3>>, 2), "next_id")),
     JsonFile(WithKey(Marshal(<<Sample1>>, 2), "next_id", JStr(<<"2">>)))}

\* ---------------------------------------------------------------- state
VARIABLES
    pc,            \* "start", "prompt" (Run waits for a command), "handled"
                   \* (the command has returned), "exited" or "killed" (the
                   \* process was terminated inside a command)
    Notes,         \* app.Notes
    NextID,        \* app.NextID
    file,          \* the collection file ConfigFile
    images,        \* the paths of the image files that exist
    now,           \* the clock
    writeFailures, \* how many writes of the collection file have failed
    assigned,      \* the IDs the notes loaded or created so far have carried
    stdin,         \* "open", or "eof" once no further line can be read
    last           \* the command that has just returned: the lines it read
                   \* and the outcomes of its calls of the system

vars == <<pc, Notes, NextID, file, images, now, writeFailures, assigned,
          stdin, last>>

NoLine == <<>>
Op(cmd) ==
    [cmd |-> cmd, id |-> NoLine, title |-> NoLine, content |-> NoLine,
     tags |-> NoLine, confirm |-> NoLine, answer |-> NoLine,
     cap |-> "none", rm |-> "none", write |-> "none", outcome |-> "none",
     shown |-> <<>>]

NoteIDs(notes) == {notes[i].ID : i \in 1..Len(notes)}
ImagePaths(notes) ==
    {notes[i].FilePath : i \in 1..Len(notes)} \ {NoPath}

\* the latest time a note of the document carries: the clock of a start is
\* not before it
Max(S) == CHOOSE m \in S : \A x \in S : x <= m
Latest(notes) ==
    Max({0} \cup {notes[i].CreatedAt : i \in 1..Len(notes)}
            \cup {notes[i].UpdatedAt : i \in 1..Len(notes)})

\* the struct literal of NewNotesApp, before app.LoadNotes()
Init ==
    /\ pc = "start"
    /\ Notes = <<>>
    /\ NextID = 1
    /\ file \in InitialFiles
    /\ images = IF file.kind = "json"
                THEN ImagePaths(Unmarshal(file.doc, <<>>, 1).Notes)
                ELSE {}
    /\ now = IF file.kind = "json"
             THEN Latest(Unmarshal(file.doc, <<>>, 1).Notes)
             ELSE 0
    /\ writeFailures = 0
    /\ assigned = {}
    /\ stdin = "open"
    /\ last = Op("none")

\* app.LoadNotes(): the state of app after it
LoadNotes(f, notes, nextID) ==
    IF f.kind # "json"
    THEN [Notes |-> notes, NextID |-> nextID,
          err |-> f.kind # "missing"]
    ELSE Unmarshal(f.doc, notes, nextID)

Startup ==
    /\ pc = "start"
    /\ LET app == LoadNotes(file, Notes, NextID)
       IN  /\ Notes' = app.Notes
           /\ NextID' = app.NextID
           /\ assigned' = NoteIDs(app.Notes)
           /\ last' = [Op("startup") EXCEPT
                         !.outcome = IF app.err THEN "error" ELSE "done"]
    /\ pc' = "handled"
    /\ UNCHANGED <<stdin, file, images, now, writeFailures>>

\* variant of SaveNotes: the store is written as it stood before the command
SaveNotesBefore(notes, nextID, w) == WriteFile(file, Marshal(Notes, NextID), w)

\* app.SaveNotes() with the write outcome w
SaveNotes(notes, nextID, w) == WriteFile(file, Marshal(notes, nextID), w)

MayWrite(w) == w = "ok" \/ writeFailures < MaxWriteFailures
CountWrite(w) == IF w = "ok" THEN writeFailures ELSE writeFailures + 1

\* runtime.GOOS, and the platforms the switches on it know
GOOS == "linux"
Supported == GOOS \in {"darwin", "linux", "windows"}

\* the switch of Run on strings.ToLower(input)
Dispatch(w) ==
    CASE w \in {<<"1">>, <<"i","n","s","c","r","i","b","e">>, <<"a","d","d">>} -> "inscribe"
      [] w \in {<<"2">>, <<"c","a","p","t","u","r","e">>, <<"s","c","r","e","e","n","s","h","o","t">>} -> "capture"
      [] w \in {<<"3">>, <<"a","r","c","h","i","v","e">>, <<"l","i","s","t">>} -> "archive"
      [] w \in {<<"4">>, <<"r","e","v","e","a","l">>, <<"v","i","e","w">>} -> "reveal"
      [] w \in {<<"5">>, <<"s","e","e","k">>, <<"s","e","a","r","c","h">>} -> "seek"
      [] w \in {<<"6">>, <<"m","o","d","i","f","y">>, <<"e","d","i","t">>} -> "modify"
      [] w \in {<<"7">>, <<"r","e","t","i","t","l","e">>} -> "retitle"
      [] w \in {<<"8">>, <<"r","e","t","a","g">>} -> "retag"
      [] w \in {<<"9">>, <<"r","e","c","a","p","t","u","r","e">>} -> "recapture"
      [] w \in {<<"1","0">>, <<"e","r","a","s","e">>, <<"d","e","l","e","t","e">>} -> "erase"
      [] w \in {<<"1","1">>, <<"w","i","s","d","o","m">>, <<"h","e","l","p">>} -> "wisdom"
      [] w \in {<<"1","2">>, <<"d","e","p","a","r","t">>, <<"q","u","i","t">>, <<"e","x","i","t">>} -> "depart"
      [] OTHER -> "unknown"

\* the top of the loop of Run: the next prompt
Prompt ==
    /\ pc = "handled"
    /\ pc' = "prompt"
    /\ last' = Op("none")
    /\ UNCHANGED <<stdin, Notes, NextID, file, images, now, writeFailures, assigned>>

\* time passes while Run waits for a line; a command reads the clock as it
\* stands, and the clock does not go back
Tick ==
    /\ pc = "prompt"
    /\ now < MaxTime
    /\ now' = now + 1
    /\ UNCHANGED <<stdin, pc, Notes, NextID, file, images, writeFailures, assigned,
                   last>>

\* the loop of Run reads a line that selects the command c
Selected == {Dispatch(ToLower(TrimSpace(input))) : input \in CommandLines}

\* at the end of the input ReadString returns the empty line, and its error
\* is dropped
SelectedAtEOF == {Dispatch(ToLower(TrimSpace(NoLine)))}

Reads(c) ==
    /\ pc = "prompt"
    /\ c \in IF stdin = "open" THEN Selected ELSE SelectedAtEOF

\* the input ends while Run waits for a command
EndOfInput ==
    /\ pc = "prompt"
    /\ stdin = "open"
    /\ stdin' = "eof"
    /\ UNCHANGED <<pc, Notes, NextID, file, images, now, writeFailures,
                   assigned, last>>

\* CreateTextNote(title, content, tags)
CreateTextNote(title, content, tags, t1, t2) ==
    Append(Notes, Note(NextID, title, content, tags, t1, t2, TypeText, NoPath))

Inscribe ==
    /\ Reads("inscribe")
    /\ NextID <= MaxID /\ Len(Notes) < MaxNotes
    /\ \E tl \in TitleLines, cl \in ContentLines, gl \in TagLines,
          w \in WriteOutcomes :
        /\ MayWrite(w)
        /\ Notes' = CreateTextNote(TrimSpace(tl), TrimSpace(cl),
                                   ParseTags(TrimSpace(gl)), now, now)
        /\ NextID' = NextID + 1
        /\ file' = SaveNotes(Notes', NextID', w)
        /\ writeFailures' = CountWrite(w)
        /\ assigned' = assigned \cup {NextID}
        /\ last' = [Op("inscribe") EXCEPT !.title = tl, !.content = cl,
                      !.tags = gl, !.write = w, !.outcome = "done"]
    /\ pc' = "handled"
    /\ UNCHANGED <<stdin, images, now>>

\* the image files after cmd.Run() with outcome c on the target path
Capture(path, c) == IF CaptureWrites(c) THEN images \cup {path} ELSE images

\* variant of FileMissing: the file is never looked for
FileNeverMissing(path, files) == FALSE

\* os.Stat(screenshotPath) reports that the file does not exist
FileMissing(path, files) == path \notin files

\* TakeScreenshot(title, tags): the note it appends once the capture is over
TakeScreenshot(title, tags, path, t1, t2) ==
    Append(Notes, Note(NextID, title, <<>>, tags, t1, t2, TypeShot, path))

CaptureCmd ==
    /\ Reads("capture")
    /\ NextID <= MaxID /\ Len(Notes) < MaxNotes
    /\ \E tl \in TitleLines, gl \in TagLines, c \in CaptureOutcomes,
          w \in WriteOutcomes :
        LET path == CapturePath(now, NextID)
            op   == Op("capture")
        IN  IF ~Supported
            THEN /\ last' = [op EXCEPT !.outcome = "unsupported"]
                 /\ UNCHANGED <<Notes, NextID, file, images, writeFailures,
                                assigned>>
            ELSE IF CaptureFails(c) \/ FileMissing(path, Capture(path, c))
            THEN /\ images' = Capture(path, c)
                 /\ last' = [op EXCEPT !.cap = c, !.outcome = "failed"]
                 /\ UNCHANGED <<Notes, NextID, file, writeFailures, assigned>>
            ELSE /\ MayWrite(w)
                 /\ images' = Capture(path, c)
                 /\ Notes' = TakeScreenshot(TrimSpace(tl),
                                 ParseTags(TrimSpace(gl)), path, now, now)
                 /\ NextID' = NextID + 1
                 /\ file' = SaveNotes(Notes', NextID', w)
                 /\ writeFailures' = CountWrite(w)
                 /\ assigned' = assigned \cup {NextID}
                 /\ last' = [op EXCEPT !.cap = c, !.write = w,
                               !.outcome = "done"]
    /\ pc' = "handled"
    /\ UNCHANGED <<stdin, now>>

\* variant of NewestFirst: the comparison of the sort is turned round
OldestFirst(notes) ==
    \A i, j \in 1..Len(notes) :
        i < j => notes[i].CreatedAt <= notes[j].CreatedAt

\* sort.Slice(app.Notes, CreatedAt after): an unstable sort, so any order of
\* the same notes in which no note comes before a newer one
NewestFirst(notes) ==
    \A i, j \in 1..Len(notes) :
        i < j => notes[i].CreatedAt >= notes[j].CreatedAt

SortSlice(notes) ==
    {sorted \in {[i \in 1..Len(notes) |-> notes[f[i]]] :
                    f \in Permutations(1..Len(notes))} : NewestFirst(sorted)}

\* ListNotes(): the rows it prints are app.Notes after the sort
Archive ==
    /\ Reads("archive")
    /\ IF Len(Notes) = 0
       THEN /\ Notes' = Notes
            /\ last' = [Op("archive") EXCEPT !.outcome = "empty"]
       ELSE /\ Notes' \in SortSlice(Notes)
            /\ last' = [Op("archive") EXCEPT !.outcome = "done",
                                             !.shown = Notes']
    /\ pc' = "handled"
    /\ UNCHANGED <<stdin, NextID, file, images, now, writeFailures, assigned>>

\* variant of FindNote: an ID that no note has is taken for the first note
FindNoteOrFirst(notes, id) ==
    IF \E i \in 1..Len(notes) : notes[i].ID = id
    THEN CHOOSE i \in 1..Len(notes) :
            /\ notes[i].ID = id
            /\ \A k \in 1..(i - 1) : notes[k].ID # id
    ELSE IF notes # <<>> THEN 1 ELSE 0

\* the loop "for i, note := range app.Notes { if note.ID == id": the index
\* of the first note with that ID, 0 when there is none
FindNote(notes, id) ==
    IF \E i \in 1..Len(notes) : notes[i].ID = id
    THEN CHOOSE i \in 1..Len(notes) :
            /\ notes[i].ID = id
            /\ \A k \in 1..(i - 1) : notes[k].ID # id
    ELSE 0

\* what a command that takes an ID does with the line it read
Lookup(idLine) ==
    LET a == Atoi(TrimSpace(idLine))
    IN  IF a.err THEN "invalid"
        ELSE IF FindNote(Notes, a.val) = 0 THEN "notfound" ELSE "found"

IdOf(idLine) == Atoi(TrimSpace(idLine)).val

\* ViewNote(id); an image note asks whether to open the file
Reveal ==
    /\ Reads("reveal")
    /\ \E il \in IdLines, al \in OpenLines \cup {NoLine} :
        LET i == FindNote(Notes, IdOf(il))
        IN  /\ al = NoLine <=> (Lookup(il) # "found" \/ Notes[i].Type = TypeText)
            /\ last' = [Op("reveal") EXCEPT !.id = il, !.answer = al,
                          !.outcome = Lookup(il)]
    /\ pc' = "handled"
    /\ UNCHANGED <<stdin, Notes, NextID, file, images, now, writeFailures, assigned>>

\* SearchNotes(query): the notes it prints, in the order of app.Notes
ContainsTag(tags, query) ==
    \E j \in 1..Len(tags.elems) : Contains(ToLower(tags.elems[j]), query)

Matches(note, query) ==
    \/ Contains(ToLower(note.Title), query)
    \/ Contains(ToLower(note.Content), query)
    \/ ContainsTag(note.Tags, query)

\* variant of SearchNotes: the query is compared as it was typed
SearchNotesExact(notes, query) ==
    SelectSeq(notes, LAMBDA n : Matches(n, query))

SearchNotes(notes, query) ==
    SelectSeq(notes, LAMBDA n : Matches(n, ToLower(query)))

Seek ==
    /\ Reads("seek")
    /\ \E ql \in QueryLines :
        LET query == TrimSpace(ql)
        IN  last' = [Op("seek") EXCEPT
                       !.content = ql,
                       !.shown = IF query = <<>> THEN <<>>
                                 ELSE SearchNotes(Notes, query),
                       !.outcome =
                           IF query = <<>> THEN "rejected"
                           ELSE IF SearchNotes(Notes, query) = <<>>
                           THEN "nomatch" ELSE "done"]
    /\ pc' = "handled"
    /\ UNCHANGED <<stdin, Notes, NextID, file, images, now, writeFailures, assigned>>

\* variant of EditScroll: the title is assigned whatever the line
EditScrollOverwrite(i, newTitle, newContent, newTagsInput, t) ==
    [Notes EXCEPT
        ![i].Title = newTitle,
        ![i].Content = IF Notes[i].Type = TypeText /\ newContent # <<>>
                       THEN newContent ELSE @,
        ![i].Tags = IF newTagsInput # <<>> THEN ParseTags(newTagsInput) ELSE @,
        ![i].UpdatedAt = t]

\* EditScroll(id) on app.Notes[i] with the three lines it read, trimmed; an
\* image note is not asked for content
EditScroll(i, newTitle, newContent, newTagsInput, t) ==
    [Notes EXCEPT
        ![i].Title = IF newTitle # <<>> THEN newTitle ELSE @,
        ![i].Content = IF Notes[i].Type = TypeText /\ newContent # <<>>
                       THEN newContent ELSE @,
        ![i].Tags = IF newTagsInput # <<>> THEN ParseTags(newTagsInput) ELSE @,
        ![i].UpdatedAt = t]

Modify ==
    /\ Reads("modify")
    /\ \E il \in IdLines, el \in EditLines, w \in WriteOutcomes :
        LET i  == FindNote(Notes, IdOf(il))
            tl == el[1]
            cl == el[2]
            gl == el[3]
            op == [Op("modify") EXCEPT !.id = il, !.outcome = Lookup(il)]
        IN  IF Lookup(il) # "found"
            THEN /\ tl = <<>> /\ cl = <<>> /\ gl = <<>> /\ w = "ok"
                 /\ last' = op
                 /\ UNCHANGED <<Notes, file, writeFailures>>
            ELSE /\ MayWrite(w)
                 /\ Notes[i].Type # TypeText => cl = <<>>
                 /\ Notes' = EditScroll(i, TrimSpace(tl), TrimSpace(cl),
                                        TrimSpace(gl), now)
                 /\ file' = SaveNotes(Notes', NextID, w)
                 /\ writeFailures' = CountWrite(w)
                 /\ last' = [op EXCEPT !.title = tl, !.content = cl,
                               !.tags = gl, !.write = w, !.outcome = "done"]
    /\ pc' = "handled"
    /\ UNCHANGED <<stdin, NextID, images, now, assigned>>

\* RetitleScroll(id) with a new title that is not blank
RetitleScroll(i, newTitle, t) ==
    [Notes EXCEPT ![i].Title = newTitle, ![i].UpdatedAt = t]

Retitle ==
    /\ Reads("retitle")
    /\ \E il \in IdLines, tl \in EditTitleLines, w \in WriteOutcomes :
        LET i  == FindNote(Notes, IdOf(il))
            op == [Op("retitle") EXCEPT !.id = il, !.outcome = Lookup(il)]
        IN  IF Lookup(il) # "found"
            THEN /\ tl = <<>> /\ w = "ok"
                 /\ last' = op
                 /\ UNCHANGED <<Notes, file, writeFailures>>
            ELSE IF TrimSpace(tl) = <<>>
            THEN /\ w = "ok"
                 /\ last' = [op EXCEPT !.title = tl, !.outcome = "unchanged"]
                 /\ UNCHANGED <<Notes, file, writeFailures>>
            ELSE /\ MayWrite(w)
                 /\ Notes' = RetitleScroll(i, TrimSpace(tl), now)
                 /\ file' = SaveNotes(Notes', NextID, w)
                 /\ writeFailures' = CountWrite(w)
                 /\ last' = [op EXCEPT !.title = tl, !.write = w,
                               !.outcome = "done"]
    /\ pc' = "handled"
    /\ UNCHANGED <<stdin, NextID, images, now, assigned>>

\* variant of RetagScroll: a blank line keeps the tags
RetagScrollKeep(i, newTagsInput, t) ==
    [Notes EXCEPT ![i].Tags = IF newTagsInput # <<>>
                              THEN ParseTags(newTagsInput) ELSE @,
                  ![i].UpdatedAt = t]

\* RetagScroll(id): the tags become those of the line, none for a blank line
RetagScroll(i, newTagsInput, t) ==
    [Notes EXCEPT ![i].Tags = ParseTags(newTagsInput), ![i].UpdatedAt = t]

Retag ==
    /\ Reads("retag")
    /\ \E il \in IdLines, gl \in TagLines, w \in WriteOutcomes :
        LET i  == FindNote(Notes, IdOf(il))
            op == [Op("retag") EXCEPT !.id = il, !.outcome = Lookup(il)]
        IN  IF Lookup(il) # "found"
            THEN /\ gl = <<>> /\ w = "ok"
                 /\ last' = op
                 /\ UNCHANGED <<Notes, file, writeFailures>>
            ELSE /\ MayWrite(w)
                 /\ Notes' = RetagScroll(i, TrimSpace(gl), now)
                 /\ file' = SaveNotes(Notes', NextID, w)
                 /\ writeFailures' = CountWrite(w)
                 /\ last' = [op EXCEPT !.tags = gl, !.write = w,
                               !.outcome = "done"]
    /\ pc' = "handled"
    /\ UNCHANGED <<stdin, NextID, images, now, assigned>>

\* os.Remove(path): it removes the file, or fails and leaves what is there
RemoveOutcomes(path, files) == IF path \in files THEN {"ok", "fail"} ELSE {"fail"}
Remove(path, files, rm) == IF rm = "ok" THEN files \ {path} ELSE files

\* RecaptureImage(id), once the new file is there
RecaptureImage(i, path, t) ==
    [Notes EXCEPT ![i].FilePath = path, ![i].Screenshot = path,
                  ![i].UpdatedAt = t]

\* variant of NotImage: every note is taken for a captured image
NotImageNever(note) == FALSE

\* the test "note.Type != screenshot" of RecaptureImage
NotImage(note) == note.Type # TypeShot

Recapture ==
    /\ Reads("recapture")
    /\ \E il \in IdLines :
        LET i  == FindNote(Notes, IdOf(il))
            op == [Op("recapture") EXCEPT !.id = il]
        IN  IF Lookup(il) # "found"
            THEN /\ last' = [op EXCEPT !.outcome = Lookup(il)]
                 /\ UNCHANGED <<Notes, file, images, writeFailures>>
            ELSE IF NotImage(Notes[i])
            THEN /\ last' = [op EXCEPT !.outcome = "notimage"]
                 /\ UNCHANGED <<Notes, file, images, writeFailures>>
            ELSE \E al \in AnswerLines, c \in CaptureOutcomes :
                LET deleteOld   == IsYes(al)
                    oldFilePath == Notes[i].FilePath
                    path        == CapturePath(now, Notes[i].ID)
                    captured    == Capture(path, c)
                    asked       == [op EXCEPT !.answer = al]
                IN  IF ~Supported
                    THEN /\ last' = [asked EXCEPT !.outcome = "unsupported"]
                         /\ UNCHANGED <<Notes, file, images, writeFailures>>
                    ELSE IF CaptureFails(c) \/ FileMissing(path, captured)
                    THEN /\ images' = captured
                         /\ last' = [asked EXCEPT !.cap = c,
                                       !.outcome = "failed"]
                         /\ UNCHANGED <<Notes, file, writeFailures>>
                    ELSE \E w \in WriteOutcomes,
                            rm \in IF deleteOld /\ oldFilePath # NoPath
                                   THEN RemoveOutcomes(oldFilePath, captured)
                                   ELSE {"none"} :
                         /\ MayWrite(w)
                         /\ Notes' = RecaptureImage(i, path, now)
                         /\ images' = Remove(oldFilePath, captured, rm)
                         /\ file' = SaveNotes(Notes', NextID, w)
                         /\ writeFailures' = CountWrite(w)
                         /\ last' = [asked EXCEPT !.cap = c, !.rm = rm,
                                       !.write = w, !.outcome = "done"]
    /\ pc' = "handled"
    /\ UNCHANGED <<stdin, NextID, now, assigned>>

\* append(app.Notes[:i], app.Notes[i+1:]...)
RemoveAt(notes, i) ==
    SubSeq(notes, 1, i - 1) \o SubSeq(notes, i + 1, Len(notes))

\* case "erase" of Run, and DeleteNote(id) once the user has confirmed
Erase ==
    /\ Reads("erase")
    /\ \E il \in IdLines :
        LET i  == FindNote(Notes, IdOf(il))
            op == [Op("erase") EXCEPT !.id = il]
        IN  IF Atoi(TrimSpace(il)).err
            THEN /\ last' = [op EXCEPT !.outcome = "invalid"]
                 /\ UNCHANGED <<Notes, file, images, writeFailures>>
            ELSE \E cl \in ConfirmLines :
                LET confirmed == [op EXCEPT !.confirm = cl]
                IN  IF ~IsYes(cl)
                    THEN /\ last' = [confirmed EXCEPT !.outcome = "preserved"]
                         /\ UNCHANGED <<Notes, file, images, writeFailures>>
                    ELSE IF i = 0
                    THEN /\ last' = [confirmed EXCEPT !.outcome = "notfound"]
                         /\ UNCHANGED <<Notes, file, images, writeFailures>>
                    ELSE \E w \in WriteOutcomes,
                            al \in IF Notes[i].Type = TypeShot
                                   THEN AnswerLines ELSE {NoLine} :
                         \E rm \in IF Notes[i].Type = TypeShot /\ IsYes(al)
                                   THEN RemoveOutcomes(Notes[i].FilePath, images)
                                   ELSE {"none"} :
                             /\ MayWrite(w)
                             /\ images' = Remove(Notes[i].FilePath, images, rm)
                             /\ Notes' = RemoveAt(Notes, i)
                             /\ file' = SaveNotes(Notes', NextID, w)
                             /\ writeFailures' = CountWrite(w)
                             /\ last' = [confirmed EXCEPT !.answer = al,
                                           !.rm = rm, !.write = w,
                                           !.outcome = "done"]
    /\ pc' = "handled"
    /\ UNCHANGED <<stdin, NextID, now, assigned>>

\* the process is terminated inside DeleteNote(id) on an image note, once the
\* question about the file is answered: before os.Remove is called, or after
\* it and before the note is cut out of app.Notes and SaveNotes runs
EraseKilled ==
    /\ Reads("erase")
    /\ \E il \in IdLines, cl \in ConfirmLines, al \in AnswerLines :
        LET i == FindNote(Notes, IdOf(il))
        IN  /\ ~Atoi(TrimSpace(il)).err
            /\ IsYes(cl)
            /\ i # 0
            /\ Notes[i].Type = TypeShot
            /\ \E rm \in {"none"} \cup
                         (IF IsYes(al)
                          THEN RemoveOutcomes(Notes[i].FilePath, images)
                          ELSE {}) :
                 /\ images' = Remove(Notes[i].FilePath, images, rm)
                 /\ last' = [Op("erase killed") EXCEPT !.id = il,
                               !.confirm = cl, !.answer = al, !.rm = rm]
    /\ pc' = "killed"
    /\ UNCHANGED <<stdin, Notes, NextID, file, now, writeFailures, assigned>>

\* the process is terminated inside RecaptureImage(id) once the capture
\* program has returned: before os.Remove(oldFilePath) is called, or after it
\* and before SaveNotes runs
RecaptureKilled ==
    /\ Reads("recapture")
    /\ Supported
    /\ \E il \in IdLines, al \in AnswerLines, c \in CaptureOutcomes :
        LET i           == FindNote(Notes, IdOf(il))
            oldFilePath == Notes[i].FilePath
            path        == CapturePath(now, Notes[i].ID)
            captured    == Capture(path, c)
        IN  /\ Lookup(il) = "found"
            /\ ~NotImage(Notes[i])
            /\ \E rm \in {"none"} \cup
                         (IF /\ ~(CaptureFails(c) \/ FileMissing(path, captured))
                             /\ IsYes(al) /\ oldFilePath # NoPath
                          THEN RemoveOutcomes(oldFilePath, captured)
                          ELSE {}) :
                 /\ images' = Remove(oldFilePath, captured, rm)
                 /\ last' = [Op("recapture killed") EXCEPT !.id = il,
                               !.answer = al, !.cap = c, !.rm = rm]
    /\ pc' = "killed"
    /\ UNCHANGED <<stdin, Notes, NextID, file, now, writeFailures, assigned>>

\* ShowHelp()
Wisdom ==
    /\ Reads("wisdom")
    /\ last' = Op("wisdom")
    /\ pc' = "handled"
    /\ UNCHANGED <<stdin, Notes, NextID, file, images, now, writeFailures, assigned>>

\* the return of Run
Depart ==
    /\ Reads("depart")
    /\ last' = Op("depart")
    /\ pc' = "exited"
    /\ UNCHANGED <<stdin, Notes, NextID, file, images, now, writeFailures, assigned>>

\* the default case of the switch
Unknown ==
    /\ Reads("unknown")
    /\ last' = Op("unknown")
    /\ pc' = "handled"
    /\ UNCHANGED <<stdin, Notes, NextID, file, images, now, writeFailures, assigned>>

Next ==
    \/ Startup
    \/ Prompt
    \/ Tick
    \/ EndOfInput
    \/ Inscribe
    \/ CaptureCmd
    \/ Archive
    \/ Reveal
    \/ Seek
    \/ Modify
    \/ Retitle
    \/ Retag
    \/ Recapture
    \/ Erase
    \/ EraseKilled
    \/ RecaptureKilled
    \/ Wisdom
    \/ Depart
    \/ Unknown

Spec == Init /\ [][Next]_vars

\* the steps that do not wait for the user are taken: the start, the return
\* to the prompt, and the read of a command once the input has ended
FairSpec ==
    /\ Spec
    /\ WF_vars(Startup)
    /\ WF_vars(Prompt)
    /\ WF_vars(Unknown /\ stdin = "eof")

\* ---------------------------------------------------------------- claims
Returned(cmd) == pc = "handled" /\ last.cmd = cmd
Creating == {"inscribe", "capture"}
Mutating == {"inscribe", "capture", "modify", "retitle", "retag",
             "recapture", "erase"}

\* the answers that are y or yes, whatever their case and the blanks around
Affirmative == {<<"y">>, <<"Y","e","s"," ">>, <<" ","Y","E","S">>, <<"Y">>}

Blank(line) == \A k \in 1..Len(line) : line[k] \in {" ", "\t"}

\* a note as its fields read, a nil tag list being an empty one
Fields(n) ==
    [ID |-> n.ID, Title |-> n.Title, Content |-> n.Content,
     Tags |-> n.Tags.elems, CreatedAt |-> n.CreatedAt,
     UpdatedAt |-> n.UpdatedAt, Type |-> n.Type, FilePath |-> n.FilePath]

AllFields(notes) == [k \in 1..Len(notes) |-> Fields(notes[k])]

\* C1: a note that a create command appends carries an ID greater than every
\* ID that a note of the store has carried so far, deleted notes included, and
\* every listing made right after the create shows the note.
C1_CreateAssignsFreshID ==
    [][(pc = "prompt" /\ last'.cmd \in Creating
            /\ Len(Notes') = Len(Notes) + 1)
        => LET new == Notes'[Len(Notes')]
           IN  /\ \A a \in assigned : new.ID > a
               /\ \A listed \in SortSlice(Notes') :
                    \E k \in 1..Len(listed) : listed[k] = new]_vars

\* C2: once the store is initialised, nextId exceeds the ID of every note
\* that was loaded.
C2_NextIDAboveLoaded ==
    Returned("startup") => \A k \in 1..Len(Notes) : NextID > Notes[k].ID

\* C3: after startup the notes of the collection have pairwise distinct IDs
\* and nextId is greater than each of them.
C3_UniqueIDsBelowNextID ==
    pc # "start"
    => /\ \A j, k \in 1..Len(Notes) : j # k => Notes[j].ID # Notes[k].ID
       /\ \A k \in 1..Len(Notes) : NextID > Notes[k].ID

\* C4: when a mutating command has returned and its write of the collection
\* file succeeded, the document on disk holds the notes of memory, field by
\* field and in the same order, and the nextId of memory.
OnDisk == Unmarshal(file.doc, <<>>, 0)

C4_DiskEqualsMemory ==
    (pc = "handled" /\ last.cmd \in Mutating /\ last.outcome = "done"
        /\ last.write = "ok")
    => /\ file.kind = "json"
       /\ file.doc.t = "object"
       /\ AllFields(OnDisk.Notes) = AllFields(Notes)
       /\ OnDisk.NextID = NextID

C4_Witness ==
    /\ Returned("recapture") /\ last.outcome = "done" /\ last.write = "ok"
    /\ Len(Notes) = 2

\* C5: saving the store and loading the written document into a fresh store
\* gives the same notes, field by field, and the saved nextId (or one that is
\* greater than every loaded ID).
Reloaded == LoadNotes(JsonFile(Marshal(Notes, NextID)), <<>>, 1)

C5_SaveLoadRoundTrip ==
    pc # "start"
    => /\ ~Reloaded.err
       /\ AllFields(Reloaded.Notes) = AllFields(Notes)
       /\ \/ Reloaded.NextID = NextID
          \/ \A k \in 1..Len(Reloaded.Notes) :
                Reloaded.NextID > Reloaded.Notes[k].ID

C5_Witness ==
    /\ pc = "handled"
    /\ Len(Notes) = 2
    /\ NextID = 2
    /\ \E k \in 1..2 : Notes[k].Type = TypeShot /\ Notes[k].FilePath # NoPath
    /\ \E k \in 1..2 : Notes[k].Type = TypeText /\ Len(Notes[k].Tags.elems) = 2

\* C6: when the collection file is missing, unreadable or malformed (not
\* JSON, or JSON with a field of the wrong type), the store is empty after
\* startup.
WrongType(doc) ==
    \/ doc.t # "object"
    \/ Has(doc, "notes") /\ doc.v["notes"].t \notin {"array", "null"}
    \/ Has(doc, "next_id") /\ doc.v["next_id"].t \notin {"number", "null"}

Malformed(f) == f.kind \in {"unreadable", "garbled"} \/ (f.kind = "json" /\ WrongType(f.doc))

C6_BadFileLoadsNothing ==
    (Returned("startup") /\ (file.kind = "missing" \/ Malformed(file)))
    => Notes = <<>>

\* C7: a text note whose title is blank is not created: the collection,
\* nextId and the collection file stay as they are.
C7_BlankTitleRejected ==
    [][(pc = "prompt" /\ last'.cmd = "inscribe" /\ Blank(last'.title))
        => UNCHANGED <<Notes, NextID, file>>]_vars

\* C8: when the capture of a new image note fails, or leaves no file at the
\* target path, no note is added, nextId keeps its value and the collection
\* file is not written.
C8_FailedCaptureAddsNothing ==
    [][(pc = "prompt" /\ last'.cmd = "capture"
            /\ (last'.cap = "err"
                \/ CapturePath(now, NextID) \notin images'))
        => UNCHANGED <<Notes, NextID, file>>]_vars

C8_Witness ==
    /\ Returned("capture")
    /\ last.cap = "nofile"
    /\ CapturePath(now, NextID) \notin images
    /\ Len(Notes) = 1

\* C9: after a confirmed delete of an existing note X no note has the ID X,
\* the other notes are the notes of before with all their fields, and nextId
\* is unchanged.
C9_DeleteRemovesOnlyX ==
    [][(pc = "prompt" /\ last'.cmd = "erase"
            /\ last'.confirm \in Affirmative
            /\ \E k \in 1..Len(Notes) : Notes[k].ID = IdOf(last'.id))
        => LET X == IdOf(last'.id)
           IN  /\ FindNote(Notes', X) = 0
               /\ Notes' = SelectSeq(Notes, LAMBDA n : n.ID # X)
               /\ NextID' = NextID]_vars

\* C10: a delete command whose confirmation is not y or yes changes nothing:
\* the notes, nextId, the image files and the collection file stay as they
\* are; so a note goes away only after a y or a yes.
C10_DeleteNeedsConfirmation ==
    [][(pc = "prompt" /\ last'.cmd = "erase"
            /\ last'.confirm \notin Affirmative)
        => UNCHANGED <<Notes, NextID, file, images>>]_vars

C10_Witness ==
    /\ Returned("erase")
    /\ last.confirm = <<"y","e","s","s">>
    /\ FindNote(Notes, IdOf(last.id)) # 0
    /\ Notes[FindNote(Notes, IdOf(last.id))].Type = TypeShot

\* a text contains a query whatever the case of the letters
SameLetter(a, b) ==
    a = b \/ \E k \in 1..Len(Upper) : {a, b} = {Upper[k], Lower[k]}

ContainsFold(s, q) ==
    \E p \in 0..(Len(s) - Len(q)) :
        \A k \in 1..Len(q) : SameLetter(s[p + k], q[k])

Hit(n, q) ==
    \/ ContainsFold(n.Title, q)
    \/ ContainsFold(n.Content, q)
    \/ \E j \in 1..Len(n.Tags.elems) : ContainsFold(n.Tags.elems[j], q)

\* C11: a search with a query that is not blank shows exactly the notes of
\* the collection whose title, content or one of whose tags contains the
\* query, letters compared whatever their case, each such note once; it shows
\* nothing when no note matches.
C11_SearchReturnsMatches ==
    [][(pc = "prompt" /\ last'.cmd = "seek" /\ ~Blank(last'.content))
        => LET q == TrimSpace(last'.content)
               hits == {k \in 1..Len(Notes) : Hit(Notes[k], q)}
           IN  /\ \A k \in 1..Len(Notes) :
                     k \in hits <=>
                        \E j \in 1..Len(last'.shown) : last'.shown[j] = Notes[k]
               /\ \A j \in 1..Len(last'.shown) :
                     \E k \in hits : Notes[k] = last'.shown[j]
               /\ Len(last'.shown) = Cardinality(hits)]_vars

C11_Witness ==
    /\ Returned("seek")
    /\ last.content = <<"B">>
    /\ Len(Notes) = 2
    /\ Len(last.shown) = 1
    /\ last.shown[1].Content = <<"b">>

\* C12: the notes a search shows are in newest-first order: none of them is
\* shown before one that was created later, whether or not a listing was made
\* before the search.
C12_SearchNewestFirst ==
    [][(pc = "prompt" /\ last'.cmd = "seek")
        => \A j, k \in 1..Len(last'.shown) :
              j < k => last'.shown[j].CreatedAt >= last'.shown[k].CreatedAt]_vars

\* C13: a listing shows every note of the collection exactly once, no note
\* before one that was created later; the listing of an empty store, loaded
\* or not, shows nothing.
C13_ListShowsAllNewestFirst ==
    [][(pc = "prompt" /\ last'.cmd = "archive")
        => /\ Len(last'.shown) = Len(Notes)
           /\ \E f \in Permutations(1..Len(Notes)) :
                 \A k \in 1..Len(Notes) : last'.shown[k] = Notes[f[k]]
           /\ \A j, k \in 1..Len(last'.shown) :
                 j < k => last'.shown[j].CreatedAt >= last'.shown[k].CreatedAt]_vars

C13_Witness ==
    /\ Returned("archive")
    /\ Len(last.shown) = 2
    /\ last.shown[1].CreatedAt = 1
    /\ last.shown[2].CreatedAt = 0
    /\ file.kind = "json"
    /\ OnDisk.Notes[1].CreatedAt = 0

\* C14: a listing, a view and a search leave the store as it is: the sequence
\* of notes in memory with every field of every note, nextId and the
\* collection file are the same after the command as before it.
C14_ReadsChangeNothing ==
    [][(pc = "prompt" /\ last'.cmd \in {"archive", "reveal", "seek"})
        => UNCHANGED <<Notes, NextID, file>>]_vars

\* C15: a recapture aimed at a text note is refused and changes nothing: the
\* notes with all their fields, nextId, the collection file and the image
\* files stay as they are, and the capture program is not run.
C15_RecaptureOfTextRefused ==
    [][(pc = "prompt" /\ last'.cmd = "recapture"
            /\ FindNote(Notes, IdOf(last'.id)) # 0
            /\ ~Atoi(TrimSpace(last'.id)).err
            /\ Notes[FindNote(Notes, IdOf(last'.id))].Type = TypeText)
        => /\ UNCHANGED <<Notes, NextID, file, images>>
           /\ last'.cap = "none"
           /\ last'.outcome = "notimage"]_vars

C15_Witness ==
    /\ Returned("recapture")
    /\ last.outcome = "notimage"
    /\ Notes[FindNote(Notes, IdOf(last.id))].Type = TypeText
    /\ Len(Notes) = 2
    /\ images # {}

\* C16: once the input has ended, so that no further line can be read, the
\* command loop eventually exits.
C16_EndOfInputExits == (stdin = "eof") ~> (pc = "exited")

\* a line that is not an integer: strconv.Atoi refuses it
IsInteger(line) ==
    LET s    == TrimSpace(line)
        body == IF s # <<>> /\ Head(s) \in {"+", "-"} THEN Tail(s) ELSE s
    IN  body # <<>> /\ \A k \in 1..Len(body) :
            body[k] \in {"0","1","2","3","4","5","6","7","8","9"}

TakesID == {"reveal", "modify", "retitle", "retag", "recapture", "erase"}

\* C17: a line that is no command, and a line that is not an integer where a
\* note ID is asked for, change nothing: the notes, nextId, the collection
\* file and the image files stay as they are, no operation of the store is
\* run, and the loop goes on to its next prompt.
C17_InvalidInputHarmless ==
    [][(pc = "prompt"
            /\ \/ last'.cmd = "unknown"
               \/ last'.cmd \in TakesID /\ ~IsInteger(last'.id))
        => /\ UNCHANGED <<Notes, NextID, file, images>>
           /\ last'.outcome = IF last'.cmd = "unknown" THEN "none" ELSE "invalid"
           /\ last'.write = "none" /\ last'.cap = "none" /\ last'.rm = "none"
           /\ pc' = "handled"]_vars

C17_Witness ==
    /\ Returned("modify")
    /\ last.id = <<"x">>
    /\ last.outcome = "invalid"
    /\ Len(Notes) = 2

\* C18: a delete removes no image file that a note still in the collection
\* refers to; the only file it may remove is the one of the note it deletes.
C18_DeleteKeepsOthersFiles ==
    [][(pc = "prompt" /\ last'.cmd = "erase" /\ Len(Notes') < Len(Notes))
        => LET gone == Notes[FindNote(Notes, IdOf(last'.id))]
           IN  /\ \A k \in 1..Len(Notes') :
                     Notes'[k].FilePath \in images
                        => Notes'[k].FilePath \in images'
               /\ images \ images' \subseteq {gone.FilePath}]_vars

\* C19: when the write of the collection file fails during a create, an
\* edit, a retitle, a retag, a recapture or a delete, the notes in memory and
\* nextId are what they were before the command.
C19_FailedWriteLeavesMemory ==
    [][(pc = "prompt" /\ last'.cmd \in Mutating /\ last'.write = "partial")
        => UNCHANGED <<Notes, NextID>>]_vars

Editing == {"modify", "retitle", "retag", "recapture"}

\* C20: an edit, a retitle, a retag or a recapture that succeeds leaves the
\* note's createdAt as it was and its updatedAt not earlier than before; an
\* edit whose title, content and tag lines are all blank keeps every field
\* and leaves updatedAt as it was.
C20_UpdatedAtBumpedByChange ==
    [][(pc = "prompt" /\ last'.cmd \in Editing /\ last'.outcome = "done")
        => LET i == FindNote(Notes, IdOf(last'.id))
           IN  /\ Notes'[i].CreatedAt = Notes[i].CreatedAt
               /\ Notes'[i].UpdatedAt >= Notes[i].UpdatedAt
               /\ (last'.cmd = "modify" /\ Blank(last'.title)
                      /\ Blank(last'.content) /\ Blank(last'.tags))
                  => Notes'[i].UpdatedAt = Notes[i].UpdatedAt]_vars

\* C21: an edit changes only what the user supplies: a blank title line keeps
\* the title and a blank content line keeps the content, a line that is not
\* blank becomes the field once trimmed; the note's id, kind, image path and
\* createdAt and every other note stay as they are, and the content of an
\* image note is never changed.
C21_EditChangesOnlySupplied ==
    [][(pc = "prompt" /\ last'.cmd = "modify" /\ last'.outcome = "done")
        => LET i == FindNote(Notes, IdOf(last'.id))
           IN  /\ Len(Notes') = Len(Notes)
               /\ \A k \in 1..Len(Notes) : k # i => Notes'[k] = Notes[k]
               /\ Notes'[i].ID = Notes[i].ID
               /\ Notes'[i].Type = Notes[i].Type
               /\ Notes'[i].FilePath = Notes[i].FilePath
               /\ Notes'[i].CreatedAt = Notes[i].CreatedAt
               /\ Notes'[i].Title = IF Blank(last'.title) THEN Notes[i].Title
                                    ELSE TrimSpace(last'.title)
               /\ Notes'[i].Content =
                     IF Blank(last'.content) \/ Notes[i].Type # TypeText
                     THEN Notes[i].Content ELSE TrimSpace(last'.content)]_vars

C21_Witness ==
    /\ Returned("modify")
    /\ last.outcome = "done"
    /\ last.title = <<>>
    /\ last.content = <<" ","b">>
    /\ Len(Notes) = 2
    /\ LET i == FindNote(Notes, IdOf(last.id))
       IN  Notes[i].Title = <<"A">> /\ Notes[i].Content = <<"b">>

\* a line without its blanks, and the tags of a list joined by commas
NoBlanks(line) == SelectSeq(line, LAMBDA c : c \notin {" ", "\t"})

RECURSIVE Joined(_)
Joined(elems) ==
    IF elems = <<>> THEN <<>>
    ELSE IF Len(elems) = 1 THEN elems[1]
    ELSE elems[1] \o <<",">> \o Joined(Tail(elems))

Commas(line) == Len(SelectSeq(line, LAMBDA c : c = ","))

\* C22: a retag with a blank line leaves the note without tags, a retag with
\* a list makes the tags the pieces between the commas, in order, each
\* without blanks around it and duplicates kept, and the written document
\* carries the new tags; an edit with a blank tag line keeps the tags.
C22_RetagReplacesOrClears ==
    [][(pc = "prompt" /\ last'.outcome = "done"
            /\ last'.cmd \in {"retag", "modify"})
        => LET i   == FindNote(Notes, IdOf(last'.id))
               new == Notes'[i].Tags.elems
           IN  IF last'.cmd = "modify"
               THEN Blank(last'.tags) => new = Notes[i].Tags.elems
               ELSE /\ Blank(last'.tags) => new = <<>>
                    /\ ~Blank(last'.tags) =>
                        /\ Len(new) = Commas(last'.tags) + 1
                        /\ Joined(new) = NoBlanks(last'.tags)
                    /\ last'.write = "ok" =>
                        Unmarshal(file'.doc, <<>>, 0).Notes[i].Tags.elems = new]_vars

C22_Witness ==
    /\ Returned("retag")
    /\ last.outcome = "done"
    /\ last.write = "ok"
    /\ last.tags = <<>>
    /\ LET i == FindNote(Notes, IdOf(last.id))
       IN  /\ Notes[i] = [Sample2 EXCEPT !.Tags = NilTags]
           /\ OnDisk.Notes[i].Tags.elems = <<>>

\* C23: a recapture that succeeds stores a path other than the one the note
\* had, and the file of the stored path exists afterwards, whether the old
\* file was to be deleted or not and however soon after the previous capture
\* the recapture runs.
C23_RecaptureFreshPath ==
    [][(pc = "prompt" /\ last'.cmd = "recapture" /\ last'.outcome = "done")
        => LET i == FindNote(Notes, IdOf(last'.id))
           IN  /\ Notes'[i].FilePath # Notes[i].FilePath
               /\ Notes'[i].FilePath \in images']_vars

\* C24: when the capture of a recapture fails, or writes no file, the note
\* keeps its image path and updatedAt, the collection file is not rewritten
\* and the old image file stays, even if the user asked to delete it; when
\* the capture succeeds and the removal of the old file fails, the note has
\* the new path and time and the document is written with them.
C24_FailedRecaptureKeepsNote ==
    [][(pc = "prompt" /\ last'.cmd = "recapture" /\ last'.cap # "none")
        => LET i == FindNote(Notes, IdOf(last'.id))
           IN  /\ last'.cap \in {"err", "nofile"} =>
                    /\ Notes' = Notes
                    /\ file' = file
                    /\ Notes[i].FilePath \in images
                          => Notes[i].FilePath \in images'
               /\ (last'.cap = "ok" /\ last'.rm = "fail") =>
                    /\ Notes'[i].FilePath = CapturePath(now, Notes[i].ID)
                    /\ Notes'[i].UpdatedAt = now
                    /\ last'.write = "ok" =>
                          AllFields(Unmarshal(file'.doc, <<>>, 0).Notes)
                              = AllFields(Notes')]_vars

\* C25: when the process is terminated inside a delete or a recapture, every
\* image note the collection file lists still has the image file it had
\* before the command: the file on disk shows no part of the unfinished
\* command.
C25_KilledKeepsListedFiles ==
    [][(pc = "prompt" /\ pc' = "killed" /\ file'.kind = "json")
        => LET listed == Unmarshal(file'.doc, <<>>, 0).Notes
           IN  \A k \in 1..Len(listed) :
                  listed[k].FilePath \in images
                      => listed[k].FilePath \in images']_vars

\* C26: a view, an edit, a retitle, a retag, a recapture or a confirmed
\* delete with an integer ID that no note of the collection has reports that
\* the note is not found and changes nothing: the notes, nextId, the
\* collection file and the image files stay as they are, and the loop goes on
\* to its next prompt.
C26_UnknownIDChangesNothing ==
    [][(pc = "prompt" /\ last'.cmd \in TakesID /\ IsInteger(last'.id)
            /\ (last'.cmd = "erase" => last'.confirm \in Affirmative)
            /\ \A k \in 1..Len(Notes) : Notes[k].ID # IdOf(last'.id))
        => /\ UNCHANGED <<Notes, NextID, file, images>>
           /\ last'.outcome = "notfound"
           /\ last'.write = "none" /\ last'.cap = "none" /\ last'.rm = "none"
           /\ pc' = "handled"]_vars

C26_Witness ==
    /\ Returned("erase")
    /\ last.outcome = "notfound"
    /\ last.confirm = <<"y">>
    /\ last.id = <<" ","2">>
    /\ Len(Notes) = 1
    /\ images # {}

====
